---- MODULE Spec2Model ----
(***************************************************************************)
(* Model of opus-embedded/sys/build.rs: the build script that configures   *)
(* and compiles libopus through autotools::Config and generates the        *)
(* decoder bindings through bindgen, rewriting doxygen comments in         *)
(* ParseCallback::process_comment.                                         *)
(*                                                                         *)
(* Text is modelled as TLA+ strings, character by character (Len, SubSeq   *)
(* and \o).  A TLA+ string cannot hold the backquote character, so the     *)
(* backquote of the source is written as the apostrophe ' throughout; no   *)
(* pattern of the source mentions the apostrophe and both characters fall  *)
(* in the same character classes of every pattern ([A-Z_], [^\n], [^\*],   *)
(* '.').                                                                   *)
(***************************************************************************)
EXTENDS Integers, Sequences, FiniteSets, TLC

(***************************************************************************)
(* str primitives                                                          *)
(***************************************************************************)
At(s, i) == SubSeq(s, i, i)

\* s[i..] begins with p
StartsWithAt(s, p, i) ==
    /\ i >= 1
    /\ i + Len(p) - 1 <= Len(s)
    /\ SubSeq(s, i, i + Len(p) - 1) = p

\* str::starts_with
starts_with(s, p) == StartsWithAt(s, p, 1)

\* least element of a non-empty set of positions
Least(S) == CHOOSE j \in S : \A m \in S : j <= m

\* position of the first occurrence of p in s at or after i, 0 if there is none
Find(s, p, i) ==
    LET hits == {j \in i..Len(s) : StartsWithAt(s, p, j)}
    IN  IF hits = {} THEN 0 ELSE Least(hits)

ContainsFrom(s, p, i) == Find(s, p, i) > 0

\* str::contains
Contains(s, p) == ContainsFrom(s, p, 1)

\* str::matches(p).count(): the non-overlapping occurrences, left to right
RECURSIVE CountFrom(_, _, _)
CountFrom(s, p, i) ==
    LET j == Find(s, p, i)
    IN  IF j = 0 THEN 0 ELSE 1 + CountFrom(s, p, j + Len(p))

Count(s, p) == CountFrom(s, p, 1)

\* str::replace: every non-overlapping occurrence of from, left to right
RECURSIVE ReplaceFrom(_, _, _, _)
ReplaceFrom(s, from, to, i) ==
    LET j == Find(s, from, i)
    IN  IF j = 0 THEN SubSeq(s, i, Len(s))
        ELSE SubSeq(s, i, j - 1) \o to \o ReplaceFrom(s, from, to, j + Len(from))

replace(s, from, to) == ReplaceFrom(s, from, to, 1)

(***************************************************************************)
(* Regex matching.  Each Rewrite Rule of ParseCallback::new is a matcher   *)
(* that, tried at position i of s, yields NoMatch or the position after    *)
(* the match and the expanded replacement template.                        *)
(***************************************************************************)
NoMatch == [end |-> 0, rep |-> ""]

Matched(e, r) == [end |-> e, rep |-> r]

UpperOrUnderscore ==
    {"A", "B", "C", "D", "E", "F", "G", "H", "I", "J", "K", "L", "M",
     "N", "O", "P", "Q", "R", "S", "T", "U", "V", "W", "X", "Y", "Z", "_"}

\* first position >= i that is past the end of s or holds no [A-Z_]
UpperRunEnd(s, i) ==
    Least({j \in i..(Len(s) + 1) :
              j = Len(s) + 1 \/ At(s, j) \notin UpperOrUnderscore})

\* first position >= i that is past the end of s or holds a newline
LineEnd(s, i) ==
    Least({j \in i..(Len(s) + 1) : j = Len(s) + 1 \/ At(s, j) = "\n"})

\* \[(?<text>(in|out))\]   ->  _\[$text\]_      (the pattern ends in a space)
MatchDirection(s, i) ==
    IF StartsWithAt(s, "[in] ", i) THEN Matched(i + 5, "_\\[in\\]_")
    ELSE IF StartsWithAt(s, "[out] ", i) THEN Matched(i + 6, "_\\[out\\]_")
    ELSE NoMatch

\* \n(?<text>\* `error`[^\n]+)\n(?<after>[^\*]*$)   ->  \n$text\n\n$after
MatchErrorItem(s, i) ==
    IF StartsWithAt(s, "\n* 'error'", i) THEN
        LET b == i + 10
            e == LineEnd(s, b)
        IN  IF e > b /\ e <= Len(s) /\ ~ContainsFrom(s, "*", e + 1)
            THEN Matched(Len(s) + 1,
                         "\n" \o SubSeq(s, i + 1, e - 1) \o "\n\n"
                              \o SubSeq(s, e + 1, Len(s)))
            ELSE NoMatch
    ELSE NoMatch

\* #(?<text>[A-Z_]+)   ->  [`$text`]
MatchHashRef(s, i) ==
    IF StartsWithAt(s, "#", i) THEN
        LET e == UpperRunEnd(s, i + 1)
        IN  IF e > i + 1
            THEN Matched(e, "['" \o SubSeq(s, i + 1, e - 1) \o "']")
            ELSE NoMatch
    ELSE NoMatch

\* @retval #?(?<val>[A-Z_]+) (?<text>.*)   ->  \n\n* [`$val`] $text
MatchRetvalConst(s, i) ==
    IF StartsWithAt(s, "@retval ", i) THEN
        LET b == IF StartsWithAt(s, "#", i + 8) THEN i + 9 ELSE i + 8
            e == UpperRunEnd(s, b)
            l == LineEnd(s, e + 1)
        IN  IF e > b /\ StartsWithAt(s, " ", e)
            THEN Matched(l, "\n\n* ['" \o SubSeq(s, b, e - 1) \o "'] "
                                 \o SubSeq(s, e + 1, l - 1))
            ELSE NoMatch
    ELSE NoMatch

\* @retval (?<text>.*)   ->  \n\n* $text
MatchRetval(s, i) ==
    IF StartsWithAt(s, "@retval ", i) THEN
        LET l == LineEnd(s, i + 8)
        IN  Matched(l, "\n\n* " \o SubSeq(s, i + 8, l - 1))
    ELSE NoMatch

\* self.replacements, by position in the vector
Match(k, s, i) ==
    CASE k = 1 -> MatchDirection(s, i)
      [] k = 2 -> MatchErrorItem(s, i)
      [] k = 3 -> MatchHashRef(s, i)
      [] k = 4 -> MatchRetvalConst(s, i)
      [] k = 5 -> MatchRetval(s, i)

Rules == {1, 2, 3, 4, 5}

\* Regex::replace_all: leftmost matches, non-overlapping, left to right
RECURSIVE ReplaceAllFrom(_, _, _)
ReplaceAllFrom(k, s, i) ==
    LET hits == {j \in i..Len(s) : Match(k, s, j).end > 0}
    IN  IF hits = {} THEN SubSeq(s, i, Len(s))
        ELSE LET j == Least(hits)
                 m == Match(k, s, j)
             IN  SubSeq(s, i, j - 1) \o m.rep \o ReplaceAllFrom(k, s, m.end)

\* mutant: the two @retval rules are missing from the table
replace_all_NoRetvalRules(k, s) ==
    IF k >= 4 THEN s ELSE ReplaceAllFrom(k, s, 1)

replace_all(k, s) == ReplaceAllFrom(k, s, 1)

(***************************************************************************)
(* ParseCallback::process_comment, the success closure                     *)
(***************************************************************************)
\* the chain of str::replace calls, in call order
Literals == <<
    [from |-> "['opus_errorcodes']", to |-> "opus error codes"],
    [from |-> "#OPUS_RESET_STATE", to |-> "'OPUS_RESET_STATE'"],
    [from |-> "@retval #OPUS_OK",
     to   |-> "\n\n\n# Returns\n\n@retval #OPUS_OK"],
    [from |-> "@retval OPUS_BANDWIDTH_NARROW",
     to   |-> "\n\n# Returns\n\n@retval OPUS_BANDWIDTH_NARROW"],
    [from |-> " # See also\n\n> ['opus_decoder_create,opus_decoder_get_size']",
     to   |-> "\nSee also ['opus_decoder_create'] and ['opus_decoder_get_size']."] >>

NumStages == Len(Literals) + Cardinality(Rules)

\* mutant: the loop over self.replacements runs before the literal chain
ApplyStage_RulesFirst(k, s) ==
    IF k <= Cardinality(Rules)
    THEN replace_all(k, s)
    ELSE replace(s, Literals[k - Cardinality(Rules)].from,
                    Literals[k - Cardinality(Rules)].to)

\* the k-th rewriting step of the closure: the literal substitutions first,
\* then the loop over self.replacements
ApplyStage(k, s) ==
    IF k <= Len(Literals)
    THEN replace(s, Literals[k].from, Literals[k].to)
    ELSE replace_all(k - Len(Literals), s)

\* the values the local `comment` takes: <<input, after step 1, ..., result>>
RECURSIVE StagesFrom(_, _)
StagesFrom(k, s) ==
    IF k > NumStages THEN <<s>>
    ELSE <<s>> \o StagesFrom(k + 1, ApplyStage(k, s))

RewriteStages(s) == StagesFrom(1, s)

Rewrite(s) == LET st == RewriteStages(s) IN st[Len(st)]

(***************************************************************************)
(* Bounds and inputs                                                       *)
(***************************************************************************)
\* comments bindgen hands to process_comment in one generate()
MaxComments == 2

\* consecutive runs of main with the same environment
MaxRuns == 2

\* values of TARGET
Targets ==
    {"thumbv6m-none-eabi", "thumbv7m-none-eabi", "thumbv7em-none-eabihf",
     "thumbv8m.main-none-eabihf", "thumbv8m.base-none-eabi",
     "x86_64-unknown-linux-gnu", "thumbv6m"}

\* values of CARGO_CFG_TARGET_OS
TargetOses == {"none", "linux"}

\* cargo features read through cfg!
Features == {"optimize_libopus", "stereo"}

CARGO_MANIFEST_DIR == "/opus-embedded/sys"

\* raw doxygen comments of the header
RawComments ==
    {"@brief Reset.\n@retval #OPUS_OK Success",
     "@see opus_decoder_create,opus_decoder_get_size"}

\* texts doxygen_bindgen::transform may hand back
Conversions ==
    {"See #OPUS_RESET_STATE.",
     "@retval #OPUS_OK Success",
     "@retval OPUS_BANDWIDTH_NARROWBAND 4 kHz",
     "@retval OPUS_BANDWIDTH_NARROW",
     "@retval truncated",
     "@retval #OPUS_OK Ok\n@retval #OPUS_BAD_ARG Bad",
     "* 'pcm' - [out] Output\n* 'error' - [out] #OPUS_OK or ['opus_errorcodes']\n",
     "Size # See also\n\n> ['opus_decoder_create,opus_decoder_get_size']"}

\* errors doxygen_bindgen::transform may hand back
Diagnostics == {"unknown command"}

Ok(t) == [ok |-> TRUE, val |-> t]
Err(e) == [ok |-> FALSE, val |-> e]

\* doxygen_bindgen::transform: an external crate whose conversion is not part
\* of this repository; any outcome is possible for any comment
transform(comment) ==
    {Ok(t) : t \in Conversions} \cup {Err(e) : e \in Diagnostics}

None == <<>>
Some(v) == <<v>>

(***************************************************************************)
(* State                                                                   *)
(***************************************************************************)
VARIABLES
    TARGET,               \* env::var("TARGET")
    CARGO_CFG_TARGET_OS,  \* env::var("CARGO_CFG_TARGET_OS")
    features,             \* the enabled cargo features
    pc,                   \* position in main
    cp_status,            \* ExitStatus of the cp child, None before it ran
    panic_at,             \* the step whose unwrap/expect/panic ended the run
    options,              \* autotools::Config: enable/disable calls so far
    cflags,               \* autotools::Config: cflag calls so far
    ldflags,              \* autotools::Config: ldflag calls so far
    plan,                 \* what builder.build() was invoked with, or None
    artifacts,            \* files produced: the library, the bindings
    allowlist,            \* bindgen::Builder: allowlist_function patterns
    clang_args,           \* bindgen::Builder: clang_arg calls so far
    seen,                 \* comments handed to process_comment so far
    comment,              \* process_comment: its argument in the last call
    result,               \* process_comment: what transform returned
    stages,               \* process_comment: values of the local `comment`
    ret,                  \* process_comment: the last call's return value
    warnings,             \* cargo:warning lines printed
    run,                  \* which run of main this is
    prev_plan             \* the plan of the last earlier run that built

env == <<TARGET, CARGO_CFG_TARGET_OS, features>>
config == <<options, cflags, ldflags>>
bindgen == <<allowlist, clang_args>>
callback == <<seen, comment, result, stages, ret, warnings>>
runs == <<run, prev_plan>>
vars == <<env, pc, cp_status, panic_at, config, plan, artifacts, bindgen,
          callback, runs>>

Enable(name) == [kind |-> "enable", name |-> name]
Disable(name) == [kind |-> "disable", name |-> name]

\* the Build Plan's option sets, as configure will receive them
OptionsOf(kind, opts) ==
    {opts[i].name : i \in {j \in 1..Len(opts) : opts[j].kind = kind}}

enabled_options == OptionsOf("enable", options)
disabled_options == OptionsOf("disable", options)

BuildPlan == [options |-> options, cflags |-> cflags, ldflags |-> ldflags]

\* the state main starts from
Fresh ==
    /\ pc = "start"
    /\ cp_status = None
    /\ panic_at = ""
    /\ options = <<>>
    /\ cflags = <<>>
    /\ ldflags = <<>>
    /\ plan = None
    /\ artifacts = {}
    /\ allowlist = {}
    /\ clang_args = <<>>
    /\ seen = 0
    /\ comment = ""
    /\ result = None
    /\ stages = <<>>
    /\ ret = None
    /\ warnings = <<>>

Init ==
    /\ TARGET \in Targets
    /\ CARGO_CFG_TARGET_OS \in TargetOses
    /\ features \in SUBSET Features
    /\ Fresh
    /\ run = 1
    /\ prev_plan = None

\* unwrap/expect on an Err, or a panic inside a collaborator
Panic(step) ==
    /\ pc' = "panicked"
    /\ panic_at' = step

(***************************************************************************)
(* main                                                                    *)
(***************************************************************************)
\* create_dir_all(&target).unwrap() and read_dir("src/opus").unwrap()
PrepareCopy ==
    /\ pc = "start"
    /\ \E ok \in BOOLEAN :
          IF ok THEN pc' = "cp" /\ UNCHANGED panic_at
          ELSE Panic("prepare")
    /\ UNCHANGED <<env, cp_status, config, plan, artifacts, bindgen, callback, runs>>

\* Command::new("cp").args(&args).status().unwrap(): the Err is a child that
\* could not be spawned; the child's exit status is the Ok value, dropped
CopySources ==
    /\ pc = "cp"
    /\ \/ /\ Panic("cp")
          /\ UNCHANGED cp_status
       \/ \E code \in {0, 1} :
             /\ cp_status' = Some(code)
             /\ pc' = "config"
             /\ UNCHANGED panic_at
    /\ UNCHANGED <<env, config, plan, artifacts, bindgen, callback, runs>>

\* mutant: the last call of the chain names float-api
BaseCalls_EnablesFloatApi ==
    << [kind |-> "disable", name |-> "deep-plc"], [kind |-> "disable", name |-> "doc"],
       [kind |-> "disable", name |-> "dred"],
       [kind |-> "disable", name |-> "extra-programs"],
       [kind |-> "disable", name |-> "float-api"],
       [kind |-> "enable", name |-> "float-api"] >>

\* the enable/disable calls chained on Config::new(target).reconf("-ivf")
BaseCalls ==
    << Disable("deep-plc"), Disable("doc"), Disable("dred"),
       Disable("extra-programs"), Disable("float-api"), Enable("fixed-point") >>

\* mutant: the configuration starts from the flags an earlier run left behind
ConfigNew_KeepsEarlierFlags ==
    /\ pc = "config"
    /\ options' = <<>>
    /\ cflags' = IF prev_plan # None THEN prev_plan[1].cflags ELSE <<>>
    /\ ldflags' = <<>>
    /\ pc' = "base"
    /\ UNCHANGED <<env, cp_status, panic_at, plan, artifacts, bindgen, callback, runs>>

ConfigNew ==
    /\ pc = "config"
    /\ options' = <<>>
    /\ cflags' = <<>>
    /\ ldflags' = <<>>
    /\ pc' = "base"
    /\ UNCHANGED <<env, cp_status, panic_at, plan, artifacts, bindgen, callback, runs>>

\* one call of the chain
BasePlan ==
    /\ pc = "base"
    /\ options' = Append(options, BaseCalls[Len(options) + 1])
    /\ pc' = IF Len(options') = Len(BaseCalls) THEN "thumbv6m" ELSE "base"
    /\ UNCHANGED <<env, cp_status, panic_at, cflags, ldflags, plan, artifacts,
                   bindgen, callback, runs>>

\* one `if TARGET.starts_with(prefix) { builder.disable(name) }`
Override(at, prefix, name, next) ==
    /\ pc = at
    /\ options' = IF starts_with(TARGET, prefix)
                  THEN Append(options, Disable(name)) ELSE options
    /\ pc' = next
    /\ UNCHANGED <<env, cp_status, panic_at, cflags, ldflags, plan, artifacts,
                   bindgen, callback, runs>>

\* mutant: the thumbv6m branch disables rtcd
Thumbv6m_DisablesRtcd == Override("thumbv6m", "thumbv6m-", "rtcd", "thumbv7m")

Thumbv6m == Override("thumbv6m", "thumbv6m-", "asm", "thumbv7m")

\* mutant: the thumbv7m branch configures a new builder
Thumbv7m_NewBuilder ==
    /\ pc = "thumbv7m"
    /\ options' = IF starts_with(TARGET, "thumbv7m-")
                  THEN << Disable("rtcd") >> ELSE options
    /\ pc' = "thumbv8m_asm"
    /\ UNCHANGED <<env, cp_status, panic_at, cflags, ldflags, plan, artifacts,
                   bindgen, callback, runs>>

Thumbv7m == Override("thumbv7m", "thumbv7m-", "rtcd", "thumbv8m_asm")

Thumbv8mMainAsm == Override("thumbv8m_asm", "thumbv8m.main-", "asm", "thumbv8m_rtcd")

Thumbv8mMainRtcd == Override("thumbv8m_rtcd", "thumbv8m.main-", "rtcd", "target_os")

NoOsCflags ==
    << "-D_FORTIFY_SOURCE=0", "-DOVERRIDE_celt_fatal", "-DCUSTOM_SUPPORT",
       "-I" \o CARGO_MANIFEST_DIR \o "/src" >>

NoOsLdflags == << "-nostdlib" >>

\* mutant: the comparison with "none" is inverted
NoOsFlags_Inverted ==
    /\ pc = "target_os"
    /\ IF CARGO_CFG_TARGET_OS # "none"
       THEN /\ cflags' = cflags \o NoOsCflags
            /\ ldflags' = ldflags \o NoOsLdflags
       ELSE UNCHANGED <<cflags, ldflags>>
    /\ pc' = "optimize"
    /\ UNCHANGED <<env, cp_status, panic_at, options, plan, artifacts, bindgen,
                   callback, runs>>

NoOsFlags ==
    /\ pc = "target_os"
    /\ IF CARGO_CFG_TARGET_OS = "none"
       THEN /\ cflags' = cflags \o NoOsCflags
            /\ ldflags' = ldflags \o NoOsLdflags
       ELSE UNCHANGED <<cflags, ldflags>>
    /\ pc' = "optimize"
    /\ UNCHANGED <<env, cp_status, panic_at, options, plan, artifacts, bindgen,
                   callback, runs>>

OptimizeFlag ==
    /\ pc = "optimize"
    /\ cflags' = IF "optimize_libopus" \in features
                 THEN Append(cflags, "-O3") ELSE cflags
    /\ pc' = "build"
    /\ UNCHANGED <<env, cp_status, panic_at, options, ldflags, plan, artifacts,
                   bindgen, callback, runs>>

\* builder.build(): autoreconf, configure, make; panics when any of them fails
Build ==
    /\ pc = "build"
    /\ plan' = Some(BuildPlan)
    /\ \E ok \in BOOLEAN :
          IF ok THEN /\ artifacts' = artifacts \cup {"libopus.a"}
                     /\ pc' = "bindgen"
                     /\ UNCHANGED panic_at
          ELSE /\ Panic("build")
               /\ UNCHANGED artifacts
    /\ UNCHANGED <<env, cp_status, config, bindgen, callback, runs>>

BaseAllowlist ==
    {"opus_decode", "opus_decoder_get_nb_samples", "opus_decoder_get_size",
     "opus_decoder_init", "opus_packet_get_.*", "opus_strerror"}

Lifecycle == {"opus_decoder_create", "opus_decoder_destroy"}

BaseClangArgs ==
    << "-DDISABLE_DEBUG_FLOAT=1", "-DDISABLE_FLOAT_API=1", "-DFIXED_POINT=1",
       "-DFLOAT_APPROX=1", "-Isrc/opus/celt", "-Isrc/opus/dnn",
       "-Isrc/opus/include", "-Isrc/opus/silk" >>

BindgenBuilder ==
    /\ pc = "bindgen"
    /\ allowlist' = BaseAllowlist
    /\ clang_args' = BaseClangArgs
    /\ pc' = "lifecycle"
    /\ UNCHANGED <<env, cp_status, panic_at, config, plan, artifacts, callback, runs>>

\* mutant: the lifecycle functions are allowed whatever the OS
AllowLifecycle_Always ==
    /\ pc = "lifecycle"
    /\ allowlist' = allowlist \cup Lifecycle
    /\ pc' = "stereo"
    /\ UNCHANGED <<env, cp_status, panic_at, config, plan, artifacts, clang_args,
                   callback, runs>>

AllowLifecycle ==
    /\ pc = "lifecycle"
    /\ allowlist' = IF CARGO_CFG_TARGET_OS # "none"
                    THEN allowlist \cup Lifecycle ELSE allowlist
    /\ pc' = "stereo"
    /\ UNCHANGED <<env, cp_status, panic_at, config, plan, artifacts, clang_args,
                   callback, runs>>

StereoDefine ==
    /\ pc = "stereo"
    /\ clang_args' = IF "stereo" \in features
                     THEN Append(clang_args, "-DOPUS_EMBEDDED_SYS_STEREO")
                     ELSE clang_args
    /\ pc' = "generate"
    /\ UNCHANGED <<env, cp_status, panic_at, config, plan, artifacts, allowlist,
                   callback, runs>>

\* the success closure on every text transform may hand back
Rewritten == [t \in Conversions |-> RewriteStages(t)]

Warning(raw, err) ==
    "cargo:warning=Could not transform doxygen comment: " \o raw \o "\n" \o err

\* mutant: the Err of transform is unwrapped
ProcessComment_Unwrap ==
    /\ pc = "generate"
    /\ seen < MaxComments
    /\ \E raw \in RawComments : \E res \in transform(raw) :
          /\ comment' = raw
          /\ result' = Some(res)
          /\ IF res.ok
             THEN /\ stages' = Rewritten[res.val]
                  /\ ret' = Some(stages'[Len(stages')])
                  /\ UNCHANGED <<pc, panic_at>>
             ELSE /\ stages' = <<>>
                  /\ ret' = None
                  /\ Panic("comment")
    /\ seen' = seen + 1
    /\ UNCHANGED <<env, warnings, cp_status, config, plan, artifacts, bindgen, runs>>

\* ParseCallback::process_comment, called by bindgen during generate()
ProcessComment ==
    /\ pc = "generate"
    /\ seen < MaxComments
    /\ \E raw \in RawComments : \E res \in transform(raw) :
          /\ comment' = raw
          /\ result' = Some(res)
          /\ IF res.ok
             THEN /\ stages' = Rewritten[res.val]
                  /\ ret' = Some(stages'[Len(stages')])
                  /\ UNCHANGED warnings
             ELSE /\ stages' = <<>>
                  /\ ret' = None
                  /\ warnings' = Append(warnings, Warning(raw, res.val))
    /\ seen' = seen + 1
    /\ UNCHANGED <<env, pc, cp_status, panic_at, config, plan, artifacts,
                   bindgen, runs>>

\* builder.generate().expect("Unable to generate bindings")
Generate ==
    /\ pc = "generate"
    /\ \E ok \in BOOLEAN :
          IF ok THEN pc' = "write" /\ UNCHANGED panic_at
          ELSE Panic("generate")
    /\ UNCHANGED <<env, cp_status, config, plan, artifacts, bindgen, callback, runs>>

\* bindings.write_to_file(..).expect("Couldn't write bindings!")
WriteBindings ==
    /\ pc = "write"
    /\ \E ok \in BOOLEAN :
          IF ok THEN /\ artifacts' = artifacts \cup {"opus_decoder_gen.rs"}
                     /\ pc' = "done"
                     /\ UNCHANGED panic_at
          ELSE /\ Panic("write")
               /\ UNCHANGED artifacts
    /\ UNCHANGED <<env, cp_status, config, plan, bindgen, callback, runs>>

\* cargo runs the build script again, in the same environment
Rerun ==
    /\ pc \in {"done", "panicked"}
    /\ run < MaxRuns
    /\ run' = run + 1
    /\ prev_plan' = IF plan # None THEN plan ELSE prev_plan
    /\ pc' = "start"
    /\ cp_status' = None
    /\ panic_at' = ""
    /\ options' = <<>>
    /\ cflags' = <<>>
    /\ ldflags' = <<>>
    /\ plan' = None
    /\ artifacts' = {}
    /\ allowlist' = {}
    /\ clang_args' = <<>>
    /\ seen' = 0
    /\ comment' = ""
    /\ result' = None
    /\ stages' = <<>>
    /\ ret' = None
    /\ warnings' = <<>>
    /\ UNCHANGED env

Next ==
    \/ PrepareCopy
    \/ CopySources
    \/ ConfigNew
    \/ BasePlan
    \/ Thumbv6m
    \/ Thumbv7m
    \/ Thumbv8mMainAsm
    \/ Thumbv8mMainRtcd
    \/ NoOsFlags
    \/ OptimizeFlag
    \/ Build
    \/ BindgenBuilder
    \/ AllowLifecycle
    \/ StereoDefine
    \/ ProcessComment
    \/ Generate
    \/ WriteBindings
    \/ Rerun

Spec == Init /\ [][Next]_vars

(***************************************************************************)
(* Properties                                                              *)
(***************************************************************************)
\* the Build Plan is complete: builder.build() is next or has been invoked
Resolved == pc = "build" \/ plan # None

\* the base plan's calls have all been made in this run
BaseApplied ==
    \/ pc \in {"thumbv6m", "thumbv7m", "thumbv8m_asm", "thumbv8m_rtcd",
               "target_os", "optimize", "build"}
    \/ plan # None

\* the allow-list is final: generate() is next or has been invoked
HandedToGenerator ==
    \/ pc \in {"generate", "write", "done"}
    \/ pc = "panicked" /\ panic_at \in {"generate", "write"}

\* process_comment has just returned to bindgen
Returned == pc = "generate" /\ seen > 0

BaseDisabled == {"deep-plc", "doc", "dred", "extra-programs", "float-api"}

\* position of the first v in seq, 0 if there is none
IndexOf(seq, v) ==
    LET hits == {i \in 1..Len(seq) : seq[i] = v}
    IN  IF hits = {} THEN 0 ELSE Least(hits)

\* C1: in every state of a run, so after every single enable/disable call, no
\* option name is both in enabled_options and in disabled_options.
C1_NoOptionBothWays == enabled_options \cap disabled_options = {}

C1_Witness ==
    /\ pc = "build"
    /\ "fixed-point" \in enabled_options
    /\ {"asm", "rtcd"} \subseteq disabled_options

\* C2: for a TARGET starting with "thumbv6m-", whatever the OS name and the
\* features, the resolved disabled_options holds asm and the five base
\* options, and holds rtcd only if TARGET also starts with "thumbv7m-" or
\* "thumbv8m.main-".
C2_NoSmullDisablesAsm ==
    (Resolved /\ starts_with(TARGET, "thumbv6m-")) =>
        /\ "asm" \in disabled_options
        /\ BaseDisabled \subseteq disabled_options
        /\ "rtcd" \in disabled_options =>
              \/ starts_with(TARGET, "thumbv7m-")
              \/ starts_with(TARGET, "thumbv8m.main-")

C2_Witness ==
    /\ Resolved
    /\ TARGET = "thumbv6m-none-eabi"
    /\ CARGO_CFG_TARGET_OS = "linux"
    /\ disabled_options = BaseDisabled \cup {"asm"}

\* C3: in the resolved plan, OS "none" gives the compiler flags
\* -D_FORTIFY_SOURCE=0, -DOVERRIDE_celt_fatal, -DCUSTOM_SUPPORT and -I<src>,
\* in this order, and the linker flag -nostdlib; any other OS gives none of
\* the five.  A "thumbv6m-" TARGET with OS "none" and no feature gets
\* fixed-point enabled, the five base options and asm disabled, and exactly
\* those flags.
C3_NoOsFlags ==
    Resolved =>
        LET fortify == IndexOf(cflags, "-D_FORTIFY_SOURCE=0")
            fatal   == IndexOf(cflags, "-DOVERRIDE_celt_fatal")
            custom  == IndexOf(cflags, "-DCUSTOM_SUPPORT")
            include == IndexOf(cflags, "-I/opus-embedded/sys/src")
            nostd   == IndexOf(ldflags, "-nostdlib")
        IN  /\ IF CARGO_CFG_TARGET_OS = "none"
               THEN /\ 0 < fortify /\ fortify < fatal
                    /\ fatal < custom /\ custom < include
                    /\ 0 < nostd
               ELSE fortify = 0 /\ fatal = 0 /\ custom = 0 /\ include = 0 /\ nostd = 0
            /\ ( /\ starts_with(TARGET, "thumbv6m-")
                 /\ CARGO_CFG_TARGET_OS = "none"
                 /\ features = {} ) =>
                    /\ enabled_options = {"fixed-point"}
                    /\ disabled_options =
                          {"deep-plc", "doc", "dred", "extra-programs",
                           "float-api", "asm"}
                    /\ cflags = << "-D_FORTIFY_SOURCE=0", "-DOVERRIDE_celt_fatal",
                                   "-DCUSTOM_SUPPORT", "-I/opus-embedded/sys/src" >>
                    /\ ldflags = << "-nostdlib" >>

C3_Witness ==
    /\ pc = "build"
    /\ TARGET = "thumbv6m-none-eabi"
    /\ CARGO_CFG_TARGET_OS = "none"
    /\ features = {}
    /\ Len(cflags) = 4
    /\ Len(ldflags) = 1

\* C4: the allow-list handed to the generator holds opus_decoder_create and
\* opus_decoder_destroy exactly when the OS name is not "none", whatever the
\* TARGET, the Build Plan and the features are.
C4_LifecycleIffOs ==
    HandedToGenerator =>
        /\ CARGO_CFG_TARGET_OS # "none" =>
              {"opus_decoder_create", "opus_decoder_destroy"} \subseteq allowlist
        /\ CARGO_CFG_TARGET_OS = "none" =>
              {"opus_decoder_create", "opus_decoder_destroy"} \cap allowlist = {}

C4_Witness ==
    /\ pc = "generate"
    /\ TARGET = "thumbv7m-none-eabi"
    /\ CARGO_CFG_TARGET_OS = "linux"
    /\ features = {"optimize_libopus", "stereo"}
    /\ "opus_decoder_create" \in allowlist
    /\ "opus_decoder_destroy" \in allowlist

ListedOrder(t) ==
    LET l1 == replace(t, "['opus_errorcodes']", "opus error codes")
        l2 == replace(l1, "#OPUS_RESET_STATE", "'OPUS_RESET_STATE'")
        l3 == replace(l2, "@retval #OPUS_OK", "\n\n\n# Returns\n\n@retval #OPUS_OK")
        l4 == replace(l3, "@retval OPUS_BANDWIDTH_NARROW",
                          "\n\n# Returns\n\n@retval OPUS_BANDWIDTH_NARROW")
        l5 == replace(l4,
                  " # See also\n\n> ['opus_decoder_create,opus_decoder_get_size']",
                  "\nSee also ['opus_decoder_create'] and ['opus_decoder_get_size'].")
        r1 == ReplaceAllFrom(1, l5, 1)
        r2 == ReplaceAllFrom(2, r1, 1)
        r3 == ReplaceAllFrom(3, r2, 1)
        r4 == ReplaceAllFrom(4, r3, 1)
        r5 == ReplaceAllFrom(5, r4, 1)
    IN  <<t, l1, l2, l3, l4, l5, r1, r2, r3, r4, r5>>

InListedOrder == [t \in Conversions |-> ListedOrder(t)]

C7_TransformFailure ==
    [][ (seen' = seen + 1 /\ ~result'[1].ok) =>
            /\ stages' = <<>>
            /\ ret' = None
            /\ warnings' = Append(warnings,
                  "cargo:warning=Could not transform doxygen comment: "
                      \o comment' \o "\n" \o result'[1].val)
            /\ comment' \in RawComments
            /\ pc = "generate" /\ pc' = "generate"
            /\ panic_at' = ""
            /\ UNCHANGED <<config, plan, artifacts, bindgen>> ]_vars

\* a failed comment, then a documented one in the same generate()
C7_Witness ==
    /\ pc = "generate"
    /\ seen = 2
    /\ warnings = << "cargo:warning=Could not transform doxygen comment: @brief Reset.\n@retval #OPUS_OK Success\nunknown command" >>
    /\ result[1].ok
    /\ ret # None

\* the success closure on every documentation it can return
RewrittenAgain ==
    [d \in {Rewritten[t][Len(Rewritten[t])] : t \in Conversions} |-> Rewrite(d)]

\* C8: for a text with a single @retval case, running the literal
\* substitutions and the five regex rules over the returned documentation a
\* second time leaves the number of "# Returns" headers as it was.
C8_NoDuplicateReturns ==
    (Returned /\ result[1].ok /\ Count(result[1].val, "@retval") = 1) =>
        Count(RewrittenAgain[ret[1]], "# Returns") = Count(ret[1], "# Returns")

C8_Witness ==
    /\ Returned
    /\ result[1] = Ok("@retval OPUS_BANDWIDTH_NARROWBAND 4 kHz")
    /\ Count(ret[1], "# Returns") = 1
    /\ ~Contains(ret[1], "@retval")

\* a step of main has failed: cp exited with a non-zero status, or a step
\* panicked
StepFailed == (cp_status # None /\ cp_status[1] # 0) \/ panic_at # ""

\* C9: every failure of a step other than a comment transform, a non-zero
\* exit status included, ends the run at once: no later step executes.
C9_EveryStepFailureAborts == StepFailed => pc = "panicked"

\* C10: once the base plan is applied, and until the run ends, the options
\* start with the base plan's six calls, fixed-point is enabled and the five
\* base options are disabled; every later step leaves the options alone or
\* appends a disable of asm or of rtcd.
C10_BasePlanSurvives ==
    /\ [](BaseApplied =>
            /\ Len(options) >= 6
            /\ SubSeq(options, 1, 6) =
                  << Disable("deep-plc"), Disable("doc"), Disable("dred"),
                     Disable("extra-programs"), Disable("float-api"),
                     Enable("fixed-point") >>
            /\ enabled_options = {"fixed-point"}
            /\ BaseDisabled \subseteq disabled_options
            /\ disabled_options \subseteq BaseDisabled \cup {"asm", "rtcd"})
    /\ [][(BaseApplied /\ BaseApplied') =>
            \/ options' = options
            \/ options' = Append(options, Disable("asm"))
            \/ options' = Append(options, Disable("rtcd"))]_vars

C10_Witness ==
    /\ pc = "build"
    /\ TARGET = "thumbv8m.main-none-eabihf"
    /\ Len(options) = 8
    /\ options[7] = Disable("asm")
    /\ options[8] = Disable("rtcd")
====
